---- MODULE Spec2Model ----
(***************************************************************************)
(* A model of the ZakatWallet ledger: the in-memory block chain, its UTXO  *)
(* scan, transaction signing and verification, proof-of-work, and the      *)
(* request handlers that mutate the chain.                                 *)
(*                                                                         *)
(* Byte strings are sequences of abstract bytes (records).  SHA-256 is an  *)
(* injective constructor: sha256(d) is the one-byte string <<[sha |-> d]>>.*)
(* A big.Int is its minimal big-endian byte string (no leading zero byte). *)
(* Output indexes are 0-based as in the Go code; TLA+ sequences are        *)
(* 1-based, so s[i + 1] is the Go element s[i].                            *)
(***************************************************************************)
EXTENDS Integers, Sequences, FiniteSets, TLC

\* ------------------------------------------------------------ bounds
\* Byte length of a P-256 scalar or coordinate (32 in the program).
IntLen == 2
\* Largest chain length the handlers are exercised to.
MaxBlocks == 4
\* Largest value of the wall clock read by NewBlock.
MaxTime == 1
\* Width, in bits, of the numeric value of a hash (256 in the program).
HashBits == 3

\* ------------------------------------------------------------ constants
\* transaction.go:98, the fixed coinbase subsidy.
Reward == 15000
\* pow.go:16 is 20 leading zero bits of 256; here 1 of HashBits.
targetBits == 1

VARIABLES
    Blocks,   \* Server.BC.Blocks, the chain
    now,      \* the wall clock (seconds)
    last,     \* the last request served and its response
    procs,    \* concurrent specifications: the in-flight requests
    sig,      \* signing specification: the transaction under test
    otps      \* Server.otps, the one-time passwords by email

vars == <<Blocks, now, last, procs, sig, otps>>

\* ------------------------------------------------------------ bytes
Byte(kind, d, h, n) == [kind |-> kind, d |-> d, h |-> h, n |-> n]
\* The zero byte and an arbitrary non-zero byte.
Zero == Byte("00", 0, <<>>, <<>>)
FF == Byte("ff", 0, <<>>, <<>>)

\* big.Int.Bytes() of the integer whose leading byte is head and whose
\* encoding is len bytes long.
IntBytes(head, len) == <<head>> \o [i \in 1..(len - 1) |-> FF]

\* big.Int.SetBytes: leading zero bytes do not change the integer.
RECURSIVE SetBytes(_)
SetBytes(bs) ==
    IF bs # <<>> /\ Head(bs) = Zero THEN SetBytes(Tail(bs)) ELSE bs

sha256(data) == <<[sha |-> data]>>

\* hex.EncodeToString / fmt.Sprintf("%x"): the string of hex digits of bytes.
HexEncode(bytes) == [hex |-> bytes]

\* A string that is not hex: the digits of pre followed by "zz".
Malformed(pre) == [hex |-> pre, tail |-> "zz"]

\* hex.DecodeString returns the bytes decoded before the first bad
\* character, and an error when there is one.
HexDecode(str) == str.hex
HexDecodeErr(str) == "tail" \in DOMAIN str

\* The nil slice, as passed to FindUTXO; distinct from the empty slice <<>>.
Nil == <<[nil |-> TRUE]>>

\* ------------------------------------------------------------ wallets
\* Private scalars.  Key 2 has a short X coordinate, key 3 a short Y.
AllKeys == {1, 2, 3}
XLen(d) == IF d = 2 THEN IntLen - 1 ELSE IntLen
YLen(d) == IF d = 3 THEN IntLen - 1 ELSE IntLen
PubX(d) == IntBytes(Byte("X", d, <<>>, <<>>), XLen(d))
PubY(d) == IntBytes(Byte("Y", d, <<>>, <<>>), YLen(d))

\* NewWallet: pubKey := append(X.Bytes(), Y.Bytes()...)
PublicKeyBytes(d) == PubX(d) \o PubY(d)

\* ------------------------------------------------------------ private keys
\* A private key is its scalar D, an integer, and its hex string is
\* modelled digit by digit: a byte is a number 0..255, a string a sequence
\* of characters, the hex digits being 0..15 and 16 a character that is
\* no hex digit.  (Addresses and ids are hex strings of hashes, whose
\* bytes are abstract: HexEncode and HexDecode above.)

\* big.Int.Bytes(): big-endian, no leading zero byte.
RECURSIVE BigIntBytes(_)
BigIntBytes(n) == IF n = 0 THEN <<>> ELSE BigIntBytes(n \div 256) \o <<n % 256>>

\* big.Int.SetBytes(bytes): the value of a big-endian byte string.
RECURSIVE BigIntSetBytes(_)
BigIntSetBytes(bytes) ==
    IF bytes = <<>> THEN 0
    ELSE 256 * BigIntSetBytes(SubSeq(bytes, 1, Len(bytes) - 1)) + bytes[Len(bytes)]

\* fmt.Sprintf("%x", bytes): two digits per byte.
RECURSIVE SprintfBytes(_)
SprintfBytes(bytes) ==
    IF bytes = <<>> THEN <<>>
    ELSE <<Head(bytes) \div 16, Head(bytes) % 16>> \o SprintfBytes(Tail(bytes))

\* fmt.Sprintf("%x", n) of a big.Int: the digits of n, no padding.
RECURSIVE SprintfBigInt(_)
SprintfBigInt(n) ==
    IF n < 16 THEN <<n>> ELSE SprintfBigInt(n \div 16) \o <<n % 16>>

\* hex.DecodeString: pairs of digits to bytes; an error at the first
\* character that is no hex digit, or at the end of a string of odd length.
RECURSIVE DecodeString(_)
DecodeString(str) ==
    IF str = <<>> THEN [err |-> FALSE, bytes |-> <<>>]
    ELSE IF Len(str) = 1 \/ str[1] > 15 \/ str[2] > 15
    THEN [err |-> TRUE, bytes |-> <<>>]
    ELSE LET rest == DecodeString(SubSeq(str, 3, Len(str)))
         IN [err |-> rest.err, bytes |-> <<16 * str[1] + str[2]>> \o rest.bytes]

\* PrivateKeyToHex with the scalar printed as a number instead of as bytes.
PrivateKeyToHex_OfBigInt(D) == SprintfBigInt(D)

\* PrivateKeyToHex: fmt.Sprintf("%x", priv.D.Bytes())
PrivateKeyToHex(D) == SprintfBytes(BigIntBytes(D))

\* curve.ScalarBaseMult(dBytes): the point of the scalar.
ScalarBaseMult(dBytes) ==
    [X |-> <<"X", BigIntSetBytes(dBytes)>>, Y |-> <<"Y", BigIntSetBytes(dBytes)>>]

\* PrivateKeyFromHex
PrivateKeyFromHex(hexKey) ==
    LET dec == DecodeString(hexKey)
    IN IF dec.err
       THEN [err |-> "decode hex private key", D |-> 0, PublicKey |-> <<>>]
       ELSE [err |-> "", D |-> BigIntSetBytes(dec.bytes),
             PublicKey |-> <<ScalarBaseMult(dec.bytes)>>]

\* The scalars of the wallets' keys.
ScalarOf(d) == IF d = 1 THEN 7 ELSE 255 + d

\* BigIntToPrivateKey: the key whose scalar is the big-endian integer
\* dBytes; 0 stands for a scalar that is no wallet's key.
BigIntToPrivateKey(dBytes) ==
    IF \E d \in AllKeys : ScalarOf(d) = BigIntSetBytes(dBytes)
    THEN CHOOSE d \in AllKeys : ScalarOf(d) = BigIntSetBytes(dBytes)
    ELSE 0

\* Wallet.GetAddress
GetAddress(d) == HexEncode(sha256(PublicKeyBytes(d)))

\* ValidateAddress: len(address) > 0
ValidateAddress(address) == address # HexEncode(<<>>)

\* main.go: the hard-coded genesis recipient, an address with no known key.
GenesisAddress == HexEncode(<<Byte("b2", 0, <<>>, <<>>)>>)

\* ------------------------------------------------------------ transactions
\* Transaction.Serialize (gob); nil and empty slices encode alike.
Serialize(tx) == <<[gob |-> tx]>>

\* Transaction.Hash: SHA-256 of the transaction with its ID blanked.
Hash(tx) == sha256(Serialize([tx EXCEPT !.ID = <<>>]))

\* Transaction.SetID, called on a transaction whose ID is still nil.
SetID(tx) == [tx EXCEPT !.ID = sha256(Serialize([tx EXCEPT !.ID = <<>>]))]

IsCoinbase(tx) ==
    /\ Len(tx.Vin) = 1
    /\ Len(tx.Vin[1].Txid) = 0
    /\ tx.Vin[1].Vout = -1

NewCoinbaseTx(to, data) ==
    LET txin == [Txid |-> <<>>, Vout |-> -1, Signature |-> <<>>,
                 PubKey |-> <<[str |-> data]>>]
        pubKeyHash == IF to = HexEncode(<<>>) THEN <<>>
                      ELSE IF ~HexDecodeErr(to) THEN HexDecode(to)
                      ELSE <<[str |-> to]>>
        txout == [Value |-> Reward, PubKeyHash |-> pubKeyHash]
    IN SetID([ID |-> <<>>, Vin |-> <<txin>>, Vout |-> <<txout>>])

TrimmedCopy(tx) ==
    [ID |-> tx.ID,
     Vin |-> [i \in 1..Len(tx.Vin) |->
                [Txid |-> tx.Vin[i].Txid, Vout |-> tx.Vin[i].Vout,
                 Signature |-> <<>>, PubKey |-> <<>>]],
     Vout |-> [i \in 1..Len(tx.Vout) |->
                [Value |-> tx.Vout[i].Value,
                 PubKeyHash |-> tx.Vout[i].PubKeyHash]]]

\* ------------------------------------------------------------ proof of work
IntToHex(n) == <<[int64 |-> n]>>

\* Block.HashTransactions: SHA-256 over the concatenated transaction IDs.
RECURSIVE JoinIDs(_)
JoinIDs(txs) == IF txs = <<>> THEN <<>> ELSE Head(txs).ID \o JoinIDs(Tail(txs))
HashTransactions(b) == sha256(JoinIDs(b.Transactions))

prepareData(b, nonce) ==
    b.PrevHash \o HashTransactions(b) \o IntToHex(b.Timestamp)
        \o IntToHex(targetBits) \o IntToHex(nonce)

\* hashInt.SetBytes(hash): the numeric value of a proof-of-work hash, a
\* fixed function of the hashed header spread over 0 .. 2^HashBits - 1.
RECURSIVE Pow2(_)
Pow2(n) == IF n = 0 THEN 1 ELSE 2 * Pow2(n - 1)
HashInt(hash) ==
    LET data == hash[1].sha
        n == Len(data)
    IN (5 * data[n].int64 + 3 * data[n - 2].int64 + n) % Pow2(HashBits)

target == Pow2(HashBits - targetBits)

\* ProofOfWork.Run: the first nonce, from 0, whose hash is below the target.
RECURSIVE Run(_, _)
Run(b, nonce) ==
    LET hash == sha256(prepareData(b, nonce))
    IN IF HashInt(hash) < target
       THEN [nonce |-> nonce, hash |-> hash]
       ELSE Run(b, nonce + 1)

\* ProofOfWork.Validate
Validate(b) == HashInt(sha256(prepareData(b, b.Nonce))) < target

\* NewBlock leaving the nonce found by Run out of the block.
NewBlock_NonceNotStored(transactions, prevHash, t) ==
    LET block == [Timestamp |-> t, Transactions |-> transactions,
                  PrevHash |-> prevHash, Hash |-> <<>>, Nonce |-> 0]
    IN [block EXCEPT !.Hash = Run(block, 0).hash]

\* NewBlock, with t the value of time.Now().Unix().
NewBlock(transactions, prevHash, t) ==
    LET block == [Timestamp |-> t, Transactions |-> transactions,
                  PrevHash |-> prevHash, Hash |-> <<>>, Nonce |-> 0]
        pow == Run(block, 0)
    IN [block EXCEPT !.Hash = pow.hash, !.Nonce = pow.nonce]

\* ------------------------------------------------------------ chain
\* NewBlockchain
NewBlockchain(address, t) ==
    <<NewBlock(<<NewCoinbaseTx(address, "Genesis Block")>>, <<>>, t)>>

\* AddBlock linking the new block to the first block instead of the tip.
AddBlock_FirstAsPrev(bc, txs, t) ==
    Append(bc, NewBlock(txs, bc[1].Hash, t))

\* AddBlock storing the new block over the tip instead of after it.
AddBlock_OverTip(bc, txs, t) ==
    [bc EXCEPT ![Len(bc)] = NewBlock(txs, bc[Len(bc)].Hash, t)]

\* Blockchain.AddBlock
AddBlock(bc, txs, t) ==
    LET prevHash == bc[Len(bc)].Hash
    IN Append(bc, NewBlock(txs, prevHash, t))

\* The transactions of the chain in scan order (block order, then position).
RECURSIVE ChainTxs(_)
ChainTxs(bc) ==
    IF bc = <<>> THEN <<>> ELSE Head(bc).Transactions \o ChainTxs(Tail(bc))

\* Go maps: a missing key reads as the nil slice.
EmptyMap == [k \in {} |-> <<>>]
MapGet(m, k) == IF k \in DOMAIN m THEN m[k] ELSE <<>>
MapPut(m, k, v) == [x \in (DOMAIN m) \cup {k} |-> IF x = k THEN v ELSE m[x]]
MapDelete(m, k) == [x \in (DOMAIN m) \ {k} |-> m[x]]

\* Blockchain.FindTransaction: the first transaction with this ID.
RECURSIVE FirstWithID(_, _)
FirstWithID(txs, ID) ==
    IF txs = <<>> THEN [found |-> FALSE, tx |-> [ID |-> <<>>, Vin |-> <<>>, Vout |-> <<>>]]
    ELSE IF HexEncode(Head(txs).ID) = HexEncode(ID)
         THEN [found |-> TRUE, tx |-> Head(txs)]
         ELSE FirstWithID(Tail(txs), ID)

\* FindTransaction starting its scan after the genesis block.
FindTransaction_SkipGenesis(bc, ID) == FirstWithID(ChainTxs(Tail(bc)), ID)

FindTransaction(bc, ID) == FirstWithID(ChainTxs(bc), ID)

\* GetTransactionsForAddress adding a transaction once per matching output
\* (the loop over the outputs without its break).
RECURSIVE TxsPaying_NoBreak(_, _)
TxsPaying_NoBreak(txs, pubKeyHash) ==
    IF txs = <<>> THEN <<>>
    ELSE LET n == Cardinality({ j \in 1..Len(Head(txs).Vout) :
                                  Head(txs).Vout[j].PubKeyHash = pubKeyHash })
         IN [k \in 1..n |-> Head(txs)] \o TxsPaying_NoBreak(Tail(txs), pubKeyHash)

\* Blockchain.GetTransactionsForAddress, the scan: a transaction is added
\* at its first output owned by pubKeyHash.
RECURSIVE TxsPaying(_, _)
TxsPaying(txs, pubKeyHash) ==
    IF txs = <<>> THEN <<>>
    ELSE (IF \E j \in 1..Len(Head(txs).Vout) :
                Head(txs).Vout[j].PubKeyHash = pubKeyHash
          THEN <<Head(txs)>> ELSE <<>>)
         \o TxsPaying(Tail(txs), pubKeyHash)

GetTransactionsForAddress(bc, address) ==
    IF ~ValidateAddress(address)
    THEN [err |-> "invalid address", txs |-> <<>>]
    ELSE IF HexDecodeErr(address)
    THEN [err |-> "invalid address encoding", txs |-> <<>>]
    ELSE [err |-> "", txs |-> TxsPaying(ChainTxs(bc), HexDecode(address))]

\* Blockchain.FindUTXO, lines 70-87: the output loop of one transaction.
RECURSIVE CollectOuts(_, _, _, _, _)
CollectOuts(UTXOs, spentTXOs, tx, pubKeyHash, outIdx) ==
    IF outIdx >= Len(tx.Vout) THEN UTXOs
    ELSE LET txIDStr == HexEncode(tx.ID)
             out == tx.Vout[outIdx + 1]
             spent == MapGet(spentTXOs, txIDStr)
             skip == \E j \in 1..Len(spent) : spent[j] = outIdx
             keep == ~skip /\ (pubKeyHash = Nil \/ out.PubKeyHash = pubKeyHash)
             next == IF keep
                     THEN MapPut(UTXOs, txIDStr, Append(MapGet(UTXOs, txIDStr), out))
                     ELSE UTXOs
         IN CollectOuts(next, spentTXOs, tx, pubKeyHash, outIdx + 1)

\* Blockchain.FindUTXO, lines 89-96: record the outputs the inputs spend.
RECURSIVE RecordSpent(_, _, _)
RecordSpent(spentTXOs, tx, i) ==
    IF IsCoinbase(tx) \/ i > Len(tx.Vin) THEN spentTXOs
    ELSE LET inTxID == HexEncode(tx.Vin[i].Txid)
         IN RecordSpent(MapPut(spentTXOs, inTxID,
                               Append(MapGet(spentTXOs, inTxID), tx.Vin[i].Vout)),
                        tx, i + 1)

\* Blockchain.FindUTXO: one pass over the chain from the genesis block on.
RECURSIVE ScanTxs(_, _, _, _)
ScanTxs(txs, spentTXOs, UTXOs, pubKeyHash) ==
    IF txs = <<>> THEN UTXOs
    ELSE ScanTxs(Tail(txs),
                 RecordSpent(spentTXOs, Head(txs), 1),
                 CollectOuts(UTXOs, spentTXOs, Head(txs), pubKeyHash, 0),
                 pubKeyHash)

FindUTXO(bc, pubKeyHash) == ScanTxs(ChainTxs(bc), EmptyMap, EmptyMap, pubKeyHash)

\* UTXOSet.Reindex: a fresh copy of FindUTXO(nil).
Reindex(bc) == FindUTXO(bc, Nil)

\* Server.balanceForAddress
RECURSIVE SumOwned(_, _)
SumOwned(outs, pubKeyHash) ==
    IF outs = <<>> THEN 0
    ELSE (IF Head(outs).PubKeyHash = pubKeyHash THEN Head(outs).Value ELSE 0)
         + SumOwned(Tail(outs), pubKeyHash)
RECURSIVE SumOverMap(_, _, _)
SumOverMap(UTXOs, keys, pubKeyHash) ==
    IF keys = {} THEN 0
    ELSE LET k == CHOOSE x \in keys : TRUE
         IN SumOwned(UTXOs[k], pubKeyHash) + SumOverMap(UTXOs, keys \ {k}, pubKeyHash)
balanceForAddress(bc, address) ==
    LET pubKeyHash == HexDecode(address)
        UTXOs == FindUTXO(bc, pubKeyHash)
    IN IF ~ValidateAddress(address) \/ HexDecodeErr(address) THEN 0
       ELSE SumOverMap(UTXOs, DOMAIN UTXOs, pubKeyHash)

\* ------------------------------------------------------------ signatures
\* The outcomes of the random nonce of ecdsa.Sign that matter here: the
\* byte lengths of r and of s.
Nonces == (1..IntLen) \X (1..IntLen)

\* ecdsa.Sign(rand.Reader, d, hash) with nonce n: the pair (r, s).
ECDSASign(d, hash, n) ==
    [r |-> IntBytes(Byte("r", 0, <<>>, n), n[1]),
     s |-> IntBytes(Byte("s", d, hash, n), n[2])]

\* ecdsa.Verify: (r, s) is a signature of hash under the key with public
\* point (x, y).
ECDSAVerify(x, y, hash, r, s) ==
    \E d \in AllKeys :
        /\ x = PubX(d)
        /\ y = PubY(d)
        /\ \E n \in Nonces : ECDSASign(d, hash, n) = [r |-> r, s |-> s]

\* The per-input hash of Sign and Verify: the trimmed copy with the
\* referenced output's PubKeyHash in the input's PubKey slot.
SigningHash(tx, inIdx, pubKeyHash) ==
    Hash([TrimmedCopy(tx) EXCEPT !.Vin[inIdx].PubKey = pubKeyHash])

\* Transaction.Sign passing over an input whose referenced transaction is
\* missing instead of returning the error.
RECURSIVE SignFrom_SkipMissing(_, _, _, _, _)
SignFrom_SkipMissing(tx, d, prevTXs, nonces, inIdx) ==
    IF inIdx > Len(tx.Vin) THEN [status |-> "ok", tx |-> tx]
    ELSE LET vin == tx.Vin[inIdx]
             key == HexEncode(vin.Txid)
         IN IF key \notin DOMAIN prevTXs
            THEN SignFrom_SkipMissing(tx, d, prevTXs, nonces, inIdx + 1)
            ELSE IF vin.Vout < 0 \/ vin.Vout >= Len(prevTXs[key].Vout)
            THEN [status |-> "panic", tx |-> tx]
            ELSE LET hash == SigningHash(tx, inIdx,
                                 prevTXs[key].Vout[vin.Vout + 1].PubKeyHash)
                     rs == ECDSASign(d, hash, nonces[inIdx])
                     signed == [tx EXCEPT
                                  !.Vin[inIdx].Signature = rs.r \o rs.s,
                                  !.Vin[inIdx].PubKey = PubX(d) \o PubY(d)]
                 IN SignFrom_SkipMissing(signed, d, prevTXs, nonces, inIdx + 1)

\* Transaction.Sign, the loop from input inIdx on; nonces[i] is the nonce
\* drawn for input i.
RECURSIVE SignFrom(_, _, _, _, _)
SignFrom(tx, d, prevTXs, nonces, inIdx) ==
    IF inIdx > Len(tx.Vin) THEN [status |-> "ok", tx |-> tx]
    ELSE LET vin == tx.Vin[inIdx]
             key == HexEncode(vin.Txid)
         IN IF key \notin DOMAIN prevTXs
            THEN [status |-> "previous transaction not found", tx |-> tx]
            ELSE IF vin.Vout < 0 \/ vin.Vout >= Len(prevTXs[key].Vout)
            THEN [status |-> "panic", tx |-> tx]
            ELSE LET hash == SigningHash(tx, inIdx,
                                 prevTXs[key].Vout[vin.Vout + 1].PubKeyHash)
                     rs == ECDSASign(d, hash, nonces[inIdx])
                     signed == [tx EXCEPT
                                  !.Vin[inIdx].Signature = rs.r \o rs.s,
                                  !.Vin[inIdx].PubKey = PubX(d) \o PubY(d)]
                 IN SignFrom(signed, d, prevTXs, nonces, inIdx + 1)

Sign(tx, d, prevTXs, nonces) ==
    IF IsCoinbase(tx) THEN [status |-> "ok", tx |-> tx]
    ELSE SignFrom(tx, d, prevTXs, nonces, 1)

\* Transaction.Verify, the loop from input inIdx on: "true", "false" or
\* "panic" (index out of range).
RECURSIVE VerifyFrom(_, _, _)
VerifyFrom(tx, prevTXs, inIdx) ==
    IF inIdx > Len(tx.Vin) THEN "true"
    ELSE LET vin == tx.Vin[inIdx]
             prevVout == MapGet([k \in DOMAIN prevTXs |-> prevTXs[k].Vout],
                                HexEncode(vin.Txid))
         IN IF vin.Vout < 0 \/ vin.Vout >= Len(prevVout) THEN "panic"
            ELSE LET hash == SigningHash(tx, inIdx, prevVout[vin.Vout + 1].PubKeyHash)
                     sigLen == Len(vin.Signature)
                     r == SetBytes(SubSeq(vin.Signature, 1, sigLen \div 2))
                     s == SetBytes(SubSeq(vin.Signature, sigLen \div 2 + 1, sigLen))
                     keyLen == Len(vin.PubKey)
                     x == SetBytes(SubSeq(vin.PubKey, 1, keyLen \div 2))
                     y == SetBytes(SubSeq(vin.PubKey, keyLen \div 2 + 1, keyLen))
                 IN IF keyLen = 0 THEN "false"
                    ELSE IF ~ECDSAVerify(x, y, hash, r, s) THEN "false"
                    ELSE VerifyFrom(tx, prevTXs, inIdx + 1)

Verify(tx, prevTXs) ==
    IF IsCoinbase(tx) THEN "true" ELSE VerifyFrom(tx, prevTXs, 1)

\* Blockchain.SignTransaction / VerifyTransaction: look the referenced
\* transactions up in the chain.
RECURSIVE LookupPrev(_, _, _, _)
LookupPrev(bc, tx, i, prevTXs) ==
    IF i > Len(tx.Vin) THEN [found |-> TRUE, prevTXs |-> prevTXs]
    ELSE LET f == FindTransaction(bc, tx.Vin[i].Txid)
         IN IF ~f.found THEN [found |-> FALSE, prevTXs |-> prevTXs]
            ELSE LookupPrev(bc, tx, i + 1,
                            MapPut(prevTXs, HexEncode(tx.Vin[i].Txid), f.tx))

SignTransaction(bc, tx, d, nonces) ==
    LET p == LookupPrev(bc, tx, 1, EmptyMap)
    IN IF ~p.found THEN [status |-> "transaction not found", tx |-> tx]
       ELSE Sign(tx, d, p.prevTXs, nonces)

VerifyTransaction(bc, tx) ==
    IF IsCoinbase(tx) THEN "true"
    ELSE LET p == LookupPrev(bc, tx, 1, EmptyMap)
         IN IF ~p.found THEN "false" ELSE Verify(tx, p.prevTXs)

\* ------------------------------------------------------------ UTXO set
\* UTXOSet.FindSpendableOutputs, the inner loop over the outputs listed
\* under one transaction ID.  st is [acc, sel, done]: the accumulated
\* value, the selection, and whether the early return was taken.
RECURSIVE TakeOuts(_, _, _, _, _, _)
TakeOuts(outs, outIdx, txID, pubKeyHash, amount, st) ==
    IF st.done \/ outIdx >= Len(outs) THEN st
    ELSE LET out == outs[outIdx + 1]
         IN IF out.PubKeyHash = pubKeyHash /\ st.acc < amount
            THEN LET acc == st.acc + out.Value
                     sel == MapPut(st.sel, txID, Append(MapGet(st.sel, txID), outIdx))
                 IN TakeOuts(outs, outIdx + 1, txID, pubKeyHash, amount,
                             [acc |-> acc, sel |-> sel, done |-> acc >= amount])
            ELSE TakeOuts(outs, outIdx + 1, txID, pubKeyHash, amount, st)

\* The outer loop ranges over a Go map, whose iteration order is
\* unspecified: every order of the remaining keys is a possible run.
RECURSIVE RangeUTXO(_, _, _, _, _)
RangeUTXO(UTXO, rest, pubKeyHash, amount, st) ==
    IF st.done \/ rest = {} THEN {st}
    ELSE UNION { RangeUTXO(UTXO, rest \ {txID}, pubKeyHash, amount,
                           TakeOuts(UTXO[txID], 0, txID, pubKeyHash, amount, st))
                 : txID \in rest }

\* The set of possible results <<accumulated, unspentOuts>>.
FindSpendableOutputs(bc, pubKeyHash, amount) ==
    LET UTXO == FindUTXO(bc, pubKeyHash)
    IN { <<st.acc, st.sel>> :
            st \in RangeUTXO(UTXO, DOMAIN UTXO, pubKeyHash, amount,
                             [acc |-> 0, sel |-> EmptyMap, done |-> FALSE]) }

\* UTXOSet.Update
RECURSIVE RemoveSpent(_, _, _)
RemoveSpent(utxo, tx, i) ==
    IF i > Len(tx.Vin) THEN utxo
    ELSE LET vin == tx.Vin[i]
             key == HexEncode(vin.Txid)
             outs == MapGet(utxo, key)
             keepIdx == { j \in 1..Len(outs) : j - 1 # vin.Vout }
             updatedOuts == [j \in 1..Cardinality(keepIdx) |->
                               outs[CHOOSE x \in keepIdx :
                                      Cardinality({y \in keepIdx : y < x}) = j - 1]]
         IN RemoveSpent(IF Len(updatedOuts) = 0 THEN MapDelete(utxo, key)
                        ELSE MapPut(utxo, key, updatedOuts),
                        tx, i + 1)
RECURSIVE UpdateTxs(_, _)
UpdateTxs(txs, utxo) ==
    IF txs = <<>> THEN utxo
    ELSE LET tx == Head(txs)
             removed == IF IsCoinbase(tx) THEN utxo ELSE RemoveSpent(utxo, tx, 1)
         IN UpdateTxs(Tail(txs), MapPut(removed, HexEncode(tx.ID), tx.Vout))
Update(block, utxo) == UpdateTxs(block.Transactions, utxo)

\* ------------------------------------------------------------ transfers
\* All orders in which a Go map's keys can be ranged over.
RECURSIVE Perms(_)
Perms(S) ==
    IF S = {} THEN {<<>>}
    ELSE UNION { { <<x>> \o p : p \in Perms(S \ {x}) } : x \in S }

\* The unsigned inputs built from a selection, its keys taken in order.
RECURSIVE InputsOf(_, _)
InputsOf(spendable, order) ==
    IF order = <<>> THEN <<>>
    ELSE [i \in 1..Len(spendable[Head(order)]) |->
            [Txid |-> HexDecode(Head(order)), Vout |-> spendable[Head(order)][i],
             Signature |-> <<>>, PubKey |-> <<>>]]
         \o InputsOf(spendable, Tail(order))

\* The nonces drawn while serving requests: one whose r and s have the
\* full length, one whose s is a byte shorter.
ServedNonces == {<<IntLen, IntLen>>, <<IntLen, IntLen - 1>>}

\* All sequences of n such nonces.
RECURSIVE NonceSeqs(_)
NonceSeqs(n) ==
    IF n = 0 THEN {<<>>}
    ELSE { Append(q, x) : q \in NonceSeqs(n - 1), x \in ServedNonces }

\* NewUTXOTransaction: one input per selected output, one output of amount
\* to the recipient, a change output when the selection exceeds amount;
\* signed through the chain, then given its ID.  The set of outcomes over
\* the map order and the signing nonces.
NewUTXOTransaction(d, to, amount, bc, spendable, fromPubKeyHash, accumulated) ==
    IF accumulated < amount
    THEN {[status |-> "insufficient funds",
           tx |-> [ID |-> <<>>, Vin |-> <<>>, Vout |-> <<>>]]}
    ELSE LET outputs ==
                 <<[Value |-> amount, PubKeyHash |-> HexDecode(to)]>>
                 \o (IF accumulated > amount
                     THEN <<[Value |-> accumulated - amount,
                             PubKeyHash |-> fromPubKeyHash]>>
                     ELSE <<>>)
         IN UNION { LET tx == [ID |-> <<>>, Vin |-> InputsOf(spendable, order),
                               Vout |-> outputs]
                    IN { LET res == SignTransaction(bc, tx, d, nonces)
                         IN [status |-> res.status,
                             tx |-> IF res.status = "ok" THEN SetID(res.tx) ELSE res.tx]
                         : nonces \in NonceSeqs(Len(tx.Vin)) }
                    : order \in Perms(DOMAIN spendable) }

\* ------------------------------------------------------------ requests
\* The wallets that exist, and the key the requests are signed with.
Keys == {1, 2}
Signers == {1}
Addresses == {GenesisAddress} \cup { GetAddress(d) : d \in Keys }
Amounts == {5000, 7500, Reward + 1}

\* What a request can carry besides: a string that is not hex in place of
\* an address or of the private key, and an amount that is not positive.
BadAddress == Malformed(HexDecode(GenesisAddress))
BadKey == <<0, 7, 16>>
PrivKeys == { PrivateKeyToHex(ScalarOf(d)) : d \in Signers } \cup {BadKey}
FromAddresses == Addresses \cup {BadAddress}
FundAddresses == Addresses \cup {BadAddress}
RequestAmounts == Amounts \cup {0}

NoTx == [ID |-> <<>>, Vin |-> <<>>, Vout |-> <<>>]

\* Server.SendTransaction up to the call of AddBlock: the possible
\* responses, with the transaction to mine when there is one.
SendOutcomes(bc, from, to, amount, privKey) ==
    IF ~ValidateAddress(from) \/ ~ValidateAddress(to)
    THEN {[status |-> "invalid address", tx |-> NoTx]}
    ELSE IF amount <= 0
    THEN {[status |-> "amount must be positive", tx |-> NoTx]}
    ELSE IF DecodeString(privKey).err
    THEN {[status |-> "invalid private key", tx |-> NoTx]}
    ELSE LET d == BigIntToPrivateKey(DecodeString(privKey).bytes)
             fromPubKeyHash == HexDecode(from)
         IN UNION {
              IF found[1] < amount
              THEN {[status |-> "insufficient funds", tx |-> NoTx]}
              ELSE { IF o.status = "panic" THEN [status |-> "panic", tx |-> NoTx]
                     ELSE IF o.status # "ok"
                     THEN [status |-> "failed to create transaction", tx |-> NoTx]
                     ELSE LET v == VerifyTransaction(bc, o.tx)
                          IN IF v = "panic" THEN [status |-> "panic", tx |-> NoTx]
                             ELSE IF v = "false"
                             THEN [status |-> "invalid transaction", tx |-> NoTx]
                             ELSE [status |-> "transaction mined", tx |-> o.tx]
                     : o \in NewUTXOTransaction(d, to, amount, bc, found[2],
                                                fromPubKeyHash, found[1]) }
              : found \in FindSpendableOutputs(bc, fromPubKeyHash, amount) }

Response(op, status, from, to, amount, privKey) ==
    [op |-> op, status |-> status, from |-> from, to |-> to, amount |-> amount,
     privKey |-> privKey]

\* A request is served while the chain is below its bound.  A rejected
\* request leaves the server as it was, so the requests that follow one are
\* explored from the state before it.
Accepted == {"ok", "transaction mined"}
Serving == Len(Blocks) < MaxBlocks /\ last.status \in Accepted

\* Server.SendTransaction
SendTransaction(from, to, amount, privKey) ==
    /\ Serving
    /\ \E o \in SendOutcomes(Blocks, from, to, amount, privKey) :
          /\ last' = Response("send", o.status, from, to, amount, privKey)
          /\ IF o.status = "transaction mined"
             THEN \E t \in now..MaxTime :
                     /\ Blocks' = AddBlock(Blocks, <<o.tx>>, t)
                     /\ now' = t
             ELSE UNCHANGED <<Blocks, now>>
    /\ UNCHANGED <<procs, sig, otps>>

\* Server.FundWallet
FundWallet(address, amount) ==
    /\ Serving
    /\ IF address = HexEncode(<<>>) \/ amount <= 0
       THEN /\ last' = Response("fund", "address and positive amount are required",
                                address, address, amount, <<>>)
            /\ UNCHANGED <<Blocks, now>>
       ELSE IF ~ValidateAddress(address)
       THEN /\ last' = Response("fund", "invalid address", address, address, amount, <<>>)
            /\ UNCHANGED <<Blocks, now>>
       ELSE \E t \in now..MaxTime :
               /\ Blocks' = AddBlock(Blocks,
                                     <<NewCoinbaseTx(address, "admin_faucet_reward")>>, t)
               /\ now' = t
               /\ last' = Response("fund", "ok", address, address, amount, <<>>)
    /\ UNCHANGED <<procs, sig, otps>>

Init ==
    /\ now \in 0..MaxTime
    /\ Blocks = NewBlockchain(GenesisAddress, now)
    /\ last = Response("init", "ok", GenesisAddress, GenesisAddress, 0, <<>>)
    /\ procs = <<>>
    /\ sig = <<>>
    /\ otps = EmptyMap

Next ==
    \/ \E from \in FromAddresses, to \in Addresses, amount \in RequestAmounts,
          privKey \in PrivKeys :
          SendTransaction(from, to, amount, privKey)
    \/ \E address \in FundAddresses, amount \in RequestAmounts :
          FundWallet(address, amount)

Spec == Init /\ [][Next]_vars

\* ------------------------------------------------------------ concurrency
\* net/http serves each request on its own goroutine and the handlers take
\* no lock around Server.BC, so the statements of two handlers interleave.
\* A request in flight is at one of these points:
\*   "idle"    not yet received
\*   "built"   transaction built and verified, AddBlock not yet entered
\*   "tip"     AddBlock has read the tip's hash            (blockchain.go:37)
\*   "mined"   NewBlock has returned                        (blockchain.go:38)
\*   "loaded"  append has read bc.Blocks                    (blockchain.go:39)
\*   "done"    bc.Blocks written, response sent
NumProcs == 2
Procs == 1..NumProcs

IdleProc ==
    [pc |-> "idle", op |-> "none", status |-> "", txs |-> <<>>,
     prevHash |-> <<>>, block |-> <<>>, local |-> <<>>]

\* The requests served concurrently.
ConcAmounts == {5000, Reward + 1}
ConcTo == {GetAddress(1)}

\* Server.SendTransaction, lines 439-479: everything before AddBlock.
BeginSend(p, from, to, amount, privKey) ==
    /\ procs[p].pc = "idle"
    /\ \E o \in SendOutcomes(Blocks, from, to, amount, privKey) :
          procs' = [procs EXCEPT ![p] =
                      IF o.status = "transaction mined"
                      THEN [@ EXCEPT !.pc = "built", !.op = "send", !.txs = <<o.tx>>]
                      ELSE [@ EXCEPT !.pc = "done", !.op = "send",
                                     !.status = o.status]]
    /\ UNCHANGED <<Blocks, now, last, sig, otps>>

\* Server.FundWallet, lines 786-806: everything before AddBlock.
BeginFund(p, address, amount) ==
    /\ procs[p].pc = "idle"
    /\ procs' = [procs EXCEPT ![p] =
                   IF address = HexEncode(<<>>) \/ amount <= 0
                   THEN [@ EXCEPT !.pc = "done", !.op = "fund",
                           !.status = "address and positive amount are required"]
                   ELSE IF ~ValidateAddress(address)
                   THEN [@ EXCEPT !.pc = "done", !.op = "fund",
                           !.status = "invalid address"]
                   ELSE [@ EXCEPT !.pc = "built", !.op = "fund",
                           !.txs = <<NewCoinbaseTx(address, "admin_faucet_reward")>>]]
    /\ UNCHANGED <<Blocks, now, last, sig, otps>>

\* AddBlock: prevHash := bc.Blocks[len(bc.Blocks)-1].Hash
ReadTip(p) ==
    /\ procs[p].pc = "built"
    /\ procs' = [procs EXCEPT ![p].pc = "tip",
                              ![p].prevHash = Blocks[Len(Blocks)].Hash]
    /\ UNCHANGED <<Blocks, now, last, sig, otps>>

\* AddBlock: newBlock := NewBlock(txs, prevHash)
Mine(p) ==
    /\ procs[p].pc = "tip"
    /\ \E t \in now..MaxTime :
          /\ now' = t
          /\ procs' = [procs EXCEPT ![p].pc = "mined",
                         ![p].block = <<NewBlock(procs[p].txs, procs[p].prevHash, t)>>]
    /\ UNCHANGED <<Blocks, last, sig, otps>>

\* AddBlock: append(bc.Blocks, newBlock) reads the slice ...
LoadBlocks(p) ==
    /\ procs[p].pc = "mined"
    /\ procs' = [procs EXCEPT ![p].pc = "loaded", ![p].local = Blocks]
    /\ UNCHANGED <<Blocks, now, last, sig, otps>>

\* ... and bc.Blocks = ... writes it back; the handler then responds.
StoreBlocks(p) ==
    /\ procs[p].pc = "loaded"
    /\ Blocks' = Append(procs[p].local, procs[p].block[1])
    /\ procs' = [procs EXCEPT ![p].pc = "done",
                   ![p].status = IF procs[p].op = "send"
                                 THEN "transaction mined" ELSE "ok"]
    /\ UNCHANGED <<now, last, sig, otps>>

InitConc ==
    /\ now \in 0..MaxTime
    /\ Blocks = NewBlockchain(GenesisAddress, now)
    /\ last = Response("init", "ok", GenesisAddress, GenesisAddress, 0, <<>>)
    /\ procs = [p \in Procs |-> IdleProc]
    /\ sig = <<>>
    /\ otps = EmptyMap

NextConc ==
    \E p \in Procs :
        \/ \E from \in Addresses, to \in ConcTo, amount \in ConcAmounts, d \in Signers :
              BeginSend(p, from, to, amount, PrivateKeyToHex(ScalarOf(d)))
        \/ \E address \in ConcTo, amount \in ConcAmounts : BeginFund(p, address, amount)
        \/ ReadTip(p)
        \/ Mine(p)
        \/ LoadBlocks(p)
        \/ StoreBlocks(p)

SpecConc == InitConc /\ [][NextConc]_vars

\* ------------------------------------------------------------ signing
\* Sign and Verify as functions of a transaction: a transfer is built over
\* referenced outputs owned by the address of key d, signed with d, and
\* then changed by a third party.
\* sig.pc is "unsigned", "signed" or "changed"; sig.verified is the result
\* of Verify on sig.tx against sig.prevTXs.

\* All sequences of n nonces.
RECURSIVE AllNonceSeqs(_)
AllNonceSeqs(n) ==
    IF n = 0 THEN {<<>>}
    ELSE { Append(q, x) : q \in AllNonceSeqs(n - 1), x \in Nonces }

\* The referenced transactions: two coinbase transactions paying d.
PrevTXsOf(d) ==
    LET a == NewCoinbaseTx(GetAddress(d), "Genesis Block")
        b == NewCoinbaseTx(GetAddress(d), "admin_faucet_reward")
    IN MapPut(MapPut(EmptyMap, HexEncode(a.ID), a), HexEncode(b.ID), b)

\* The referenced transactions supplied to Sign: those with an id in S.
Supplied(d, S) == [id \in S |-> PrevTXsOf(d)[id]]

\* The chain SignTransaction looks the references up in: the genesis
\* block with the first coinbase transaction and, when S has both ids, a
\* block with the second.
SigChain(d, S) ==
    LET bc == NewBlockchain(GetAddress(d), 0)
    IN IF S = DOMAIN PrevTXsOf(d)
       THEN AddBlock(bc, <<NewCoinbaseTx(GetAddress(d), "admin_faucet_reward")>>, 0)
       ELSE bc

SigAmounts == {5000, Reward}
ChangedValues == {0, 5000, Reward}

InitSig ==
    /\ now = 0
    /\ otps = EmptyMap
    /\ last = Response("init", "ok", GenesisAddress, GenesisAddress, 0, <<>>)
    /\ procs = <<>>
    /\ \E d \in AllKeys, to \in Addresses, amount \in SigAmounts :
          \E ids \in (SUBSET DOMAIN PrevTXsOf(d)) \ {{}},
             S \in SUBSET DOMAIN PrevTXsOf(d) :
             \E order \in Perms(ids) :
                LET spendable == [id \in ids |-> <<0>>]
                    accumulated == Reward * Cardinality(ids)
                    outputs == <<[Value |-> amount, PubKeyHash |-> HexDecode(to)]>>
                               \o (IF accumulated > amount
                                   THEN <<[Value |-> accumulated - amount,
                                           PubKeyHash |-> HexDecode(GetAddress(d))]>>
                                   ELSE <<>>)
                IN /\ Blocks = SigChain(d, S)
                   /\ sig = [pc |-> "unsigned", d |-> d, prevTXs |-> Supplied(d, S),
                             tx |-> [ID |-> <<>>, Vin |-> InputsOf(spendable, order),
                                     Vout |-> outputs],
                             verified |-> "", change |-> "none",
                             via |-> "", status |-> ""]

\* tx.Sign(privKey, prevTXs), then tx.Verify(prevTXs).
SignAndVerify ==
    /\ sig.pc = "unsigned"
    /\ \E nonces \in AllNonceSeqs(Len(sig.tx.Vin)) :
          LET res == Sign(sig.tx, sig.d, sig.prevTXs, nonces)
          IN /\ res.status = "ok"
             /\ sig' = [sig EXCEPT !.pc = "signed", !.tx = res.tx,
                                   !.via = "Sign", !.status = res.status,
                                   !.verified = Verify(res.tx, sig.prevTXs)]
    /\ UNCHANGED <<Blocks, now, last, procs, otps>>

\* tx.Sign(privKey, prevTXs) returning an error (or panicking).
SignFails ==
    /\ sig.pc = "unsigned"
    /\ \E nonces \in AllNonceSeqs(Len(sig.tx.Vin)) :
          LET res == Sign(sig.tx, sig.d, sig.prevTXs, nonces)
          IN /\ res.status # "ok"
             /\ sig' = [sig EXCEPT !.pc = "failed", !.tx = res.tx,
                                   !.via = "Sign", !.status = res.status]
    /\ UNCHANGED <<Blocks, now, last, procs, otps>>

\* bc.SignTransaction(tx, privKey) on the chain.
SignOnChain ==
    /\ sig.pc = "unsigned"
    /\ \E nonces \in AllNonceSeqs(Len(sig.tx.Vin)) :
          LET res == SignTransaction(Blocks, sig.tx, sig.d, nonces)
          IN sig' = [sig EXCEPT !.pc = IF res.status = "ok" THEN "chain" ELSE "failed",
                                !.tx = res.tx, !.via = "SignTransaction",
                                !.status = res.status]
    /\ UNCHANGED <<Blocks, now, last, procs, otps>>

Changed(tx, how) ==
    [sig EXCEPT !.pc = "changed", !.tx = tx, !.change = how,
                !.verified = Verify(tx, sig.prevTXs)]

\* An output's value is changed after signing.
ChangeValue(j, v) ==
    /\ sig.pc = "signed"
    /\ j \in 1..Len(sig.tx.Vout)
    /\ v # sig.tx.Vout[j].Value
    /\ sig' = Changed([sig.tx EXCEPT !.Vout[j].Value = v], "value")
    /\ UNCHANGED <<Blocks, now, last, procs, otps>>

\* An output's owner is changed after signing.
ChangeOwner(j, a) ==
    /\ sig.pc = "signed"
    /\ j \in 1..Len(sig.tx.Vout)
    /\ HexDecode(a) # sig.tx.Vout[j].PubKeyHash
    /\ sig' = Changed([sig.tx EXCEPT !.Vout[j].PubKeyHash = HexDecode(a)], "owner")
    /\ UNCHANGED <<Blocks, now, last, procs, otps>>

\* One byte of an input's signature is changed after signing.
ChangeSignatureByte(i, k, b) ==
    /\ sig.pc = "signed"
    /\ i \in 1..Len(sig.tx.Vin)
    /\ k \in 1..Len(sig.tx.Vin[i].Signature)
    /\ b # sig.tx.Vin[i].Signature[k]
    /\ sig' = Changed([sig.tx EXCEPT !.Vin[i].Signature[k] = b], "signature byte")
    /\ UNCHANGED <<Blocks, now, last, procs, otps>>

\* An input's signature is changed after signing by putting a zero byte
\* in front of each of its halves.
PadSignature(i) ==
    /\ sig.pc = "signed"
    /\ i \in 1..Len(sig.tx.Vin)
    /\ LET old == sig.tx.Vin[i].Signature
           half == Len(old) \div 2
           new == <<Zero>> \o SubSeq(old, 1, half)
                    \o <<Zero>> \o SubSeq(old, half + 1, Len(old))
       IN sig' = Changed([sig.tx EXCEPT !.Vin[i].Signature = new], "signature padding")
    /\ UNCHANGED <<Blocks, now, last, procs, otps>>

\* An input's signature is cut down to its first n bytes after signing.
TruncateSignature(i, n) ==
    /\ sig.pc = "signed"
    /\ i \in 1..Len(sig.tx.Vin)
    /\ n < Len(sig.tx.Vin[i].Signature)
    /\ sig' = Changed([sig.tx EXCEPT !.Vin[i].Signature = SubSeq(@, 1, n)],
                      "signature length")
    /\ UNCHANGED <<Blocks, now, last, procs, otps>>

\* An input's public key is cut down to its first n bytes after signing.
TruncatePubKey(i, n) ==
    /\ sig.pc = "signed"
    /\ i \in 1..Len(sig.tx.Vin)
    /\ n < Len(sig.tx.Vin[i].PubKey)
    /\ sig' = Changed([sig.tx EXCEPT !.Vin[i].PubKey = SubSeq(@, 1, n)],
                      "key length")
    /\ UNCHANGED <<Blocks, now, last, procs, otps>>

NextSig ==
    \/ SignAndVerify
    \/ SignFails
    \/ SignOnChain
    \/ \E j \in 1..2, v \in ChangedValues : ChangeValue(j, v)
    \/ \E j \in 1..2, a \in Addresses : ChangeOwner(j, a)
    \/ \E i \in 1..2, k \in 1..(2 * (IntLen + 1)), b \in {Zero, FF} :
          ChangeSignatureByte(i, k, b)
    \/ \E i \in 1..2 : PadSignature(i)
    \/ \E i \in 1..2, n \in 0..(2 * IntLen) : TruncateSignature(i, n)
    \/ \E i \in 1..2, n \in 0..(2 * IntLen) : TruncatePubKey(i, n)

SpecSig == InitSig /\ [][NextSig]_vars

\* ------------------------------------------------------------ key encoding
\* PrivateKeyToHex and PrivateKeyFromHex as functions of a private key.
\* sig.pc is "key" for a generated key and "decoded" once its hex string
\* has been decoded again; sig.got is what PrivateKeyFromHex returned.
MaxScalar == 300

InitKey ==
    /\ now = 0
    /\ Blocks = NewBlockchain(GenesisAddress, now)
    /\ last = Response("init", "ok", GenesisAddress, GenesisAddress, 0, <<>>)
    /\ procs = <<>>
    /\ otps = EmptyMap
    /\ \E D \in 1..MaxScalar :
          sig = [pc |-> "key", D |-> D,
                 PublicKey |-> <<ScalarBaseMult(BigIntBytes(D))>>,
                 hex |-> <<>>, got |-> <<>>]

\* PrivateKeyFromHex(PrivateKeyToHex(priv))
EncodeDecode ==
    /\ sig.pc = "key"
    /\ sig' = [sig EXCEPT !.pc = "decoded",
                          !.hex = PrivateKeyToHex(sig.D),
                          !.got = <<PrivateKeyFromHex(PrivateKeyToHex(sig.D))>>]
    /\ UNCHANGED <<Blocks, now, last, procs, otps>>

NextKey == EncodeDecode

SpecKey == InitKey /\ [][NextKey]_vars

\* ------------------------------------------------------------ pair encoding
\* The byte encoding of a pair of integers, (r, s) of a signature or (X, Y)
\* of a public key, as functions of the pair, byte by byte.
\* sig.pc is "pair" for a pair and "split" once its encoding has been
\* split again; sig.got is the pair the split gave.
MaxCoord == 260

\* Sign: append(r.Bytes(), s.Bytes()...); NewWallet: append(X.Bytes(),
\* Y.Bytes()...).
JoinPair(a, b) == BigIntBytes(a) \o BigIntBytes(b)

\* Verify: SetBytes of the halves bytes[:len/2] and bytes[len/2:].
SplitPair(bytes) ==
    <<BigIntSetBytes(SubSeq(bytes, 1, Len(bytes) \div 2)),
      BigIntSetBytes(SubSeq(bytes, Len(bytes) \div 2 + 1, Len(bytes)))>>

InitPair ==
    /\ now = 0
    /\ Blocks = NewBlockchain(GenesisAddress, now)
    /\ last = Response("init", "ok", GenesisAddress, GenesisAddress, 0, <<>>)
    /\ procs = <<>>
    /\ otps = EmptyMap
    /\ \E a \in 1..MaxCoord, b \in 1..MaxCoord :
          sig = [pc |-> "pair", a |-> a, b |-> b, bytes |-> <<>>, got |-> <<>>]

\* The pair is encoded as Sign and NewWallet do and split as Verify does.
JoinAndSplit ==
    /\ sig.pc = "pair"
    /\ sig' = [sig EXCEPT !.pc = "split",
                          !.bytes = JoinPair(sig.a, sig.b),
                          !.got = SplitPair(JoinPair(sig.a, sig.b))]
    /\ UNCHANGED <<Blocks, now, last, procs, otps>>

NextPair == JoinAndSplit

SpecPair == InitPair /\ [][NextPair]_vars

\* ------------------------------------------------------------ one-time passwords
\* RequestOTP and VerifyOTP, each request on its own goroutine.  otpMu is
\* held around each single access of Server.otps and released in between.
\* A VerifyOTP request is at one of these points:
\*   "idle"   not yet received
\*   "read"   entry read under the lock                  (part_002:380-382)
\*   "valid"  expiry and code tested, entry accepted     (part_002:399)
\*   "done"   response sent
NumOtpProcs == 3
OtpProcs == 1..NumOtpProcs
\* Expires: time.Now().Add(5 * time.Minute); the clock here counts in
\* units of which OtpLifetime make up the five minutes.
OtpLifetime == 1
MaxOtpTime == 2

Emails == {"", "a@zakat.pk"}
Codes == {"", "111111", "222222"}

IdleOtp == [pc |-> "idle", op |-> "none", email |-> "", otp |-> "",
            entry |-> <<>>, status |-> ""]

\* The passwords RequestOTP has issued so far.
IssuedOTPs ==
    { <<procs[p].email, procs[p].otp>> :
        p \in { q \in OtpProcs : procs[q].op = "request" /\ procs[q].status = "ok" } }

\* Server.RequestOTP; code is the value generateOTP drew, a fresh one.
RequestOTP(p, email, code) ==
    /\ procs[p].pc = "idle"
    /\ code # ""
    /\ <<email, code>> \notin IssuedOTPs
    /\ IF email = ""
       THEN /\ procs' = [procs EXCEPT ![p] =
                           [IdleOtp EXCEPT !.pc = "done", !.op = "request",
                                           !.status = "email is required"]]
            /\ otps' = otps
       ELSE /\ otps' = MapPut(otps, email,
                              [Code |-> code, Expires |-> now + OtpLifetime])
            /\ procs' = [procs EXCEPT ![p] =
                           [IdleOtp EXCEPT !.pc = "done", !.op = "request",
                                           !.email = email, !.otp = code,
                                           !.status = "ok"]]
    /\ UNCHANGED <<Blocks, now, last, sig>>

\* Server.VerifyOTP up to the first unlock: validate, read the entry.
VerifyRead(p, email, otp) ==
    /\ procs[p].pc = "idle"
    /\ procs' = [procs EXCEPT ![p] =
          IF email = "" \/ otp = ""
          THEN [IdleOtp EXCEPT !.pc = "done", !.op = "verify", !.email = email,
                               !.otp = otp, !.status = "email and otp are required"]
          ELSE IF email \notin DOMAIN otps
          THEN [IdleOtp EXCEPT !.pc = "done", !.op = "verify", !.email = email,
                               !.otp = otp, !.status = "invalid or expired otp"]
          ELSE [IdleOtp EXCEPT !.pc = "read", !.op = "verify", !.email = email,
                               !.otp = otp, !.entry = <<otps[email]>>]]
    /\ UNCHANGED <<Blocks, now, last, sig, otps>>

\* VerifyOTP: time.Now().After(entry.Expires) || entry.Code != req.OTP
VerifyCheck(p) ==
    /\ procs[p].pc = "read"
    /\ procs' = [procs EXCEPT ![p] =
          IF now > procs[p].entry[1].Expires \/ procs[p].entry[1].Code # procs[p].otp
          THEN [@ EXCEPT !.pc = "done", !.status = "invalid or expired otp"]
          ELSE [@ EXCEPT !.pc = "valid"]]
    /\ UNCHANGED <<Blocks, now, last, sig, otps>>

\* VerifyOTP: delete(s.otps, req.Email) under the lock, then the response.
VerifyDelete(p) ==
    /\ procs[p].pc = "valid"
    /\ otps' = MapDelete(otps, procs[p].email)
    /\ procs' = [procs EXCEPT ![p].pc = "done", ![p].status = "otp verified"]
    /\ UNCHANGED <<Blocks, now, last, sig>>

\* The wall clock advances.
Tick ==
    /\ now < MaxOtpTime
    /\ now' = now + 1
    /\ UNCHANGED <<Blocks, last, procs, sig, otps>>

InitOtp ==
    /\ now = 0
    /\ Blocks = NewBlockchain(GenesisAddress, now)
    /\ last = Response("init", "ok", GenesisAddress, GenesisAddress, 0, <<>>)
    /\ procs = [p \in OtpProcs |-> IdleOtp]
    /\ sig = <<>>
    /\ otps = EmptyMap

NextOtp ==
    \/ \E p \in OtpProcs :
          \/ \E email \in Emails, code \in Codes : RequestOTP(p, email, code)
          \/ \E email \in Emails, otp \in Codes : VerifyRead(p, email, otp)
          \/ VerifyCheck(p)
          \/ VerifyDelete(p)
    \/ Tick

SpecOtp == InitOtp /\ [][NextOtp]_vars

\* ------------------------------------------------------------ reads
\* The operations that only read the chain, served between the requests
\* that extend it.  A read leaves the server as it was, so like a rejected
\* request it is answered and the requests that follow are explored from
\* the state before it.

\* Blockchain.ListBlocks
ListBlocks(bc) ==
    [i \in 1..Len(bc) |->
        [Index |-> i - 1, Timestamp |-> bc[i].Timestamp,
         Hash |-> HexEncode(bc[i].Hash), PrevHash |-> HexEncode(bc[i].PrevHash),
         TxCount |-> Len(bc[i].Transactions)]]

\* Blockchain.GetBlockByIndex
GetBlockByIndex(bc, idx) ==
    IF idx < 0 \/ idx >= Len(bc) THEN [ok |-> FALSE, block |-> <<>>]
    ELSE [ok |-> TRUE, block |-> <<bc[idx + 1]>>]

\* The requests that extend the chain between the reads, and what a read
\* is asked for.
ReadIDs == { ChainTxs(Blocks)[p].ID : p \in 1..Len(ChainTxs(Blocks)) }
              \cup { sha256(<<>>) }
ReadFrom == {GenesisAddress, GetAddress(1)}
ReadOwners == { HexDecode(a) : a \in ReadFrom } \cup {Nil}
ReadIndexes == (0 - 1)..MaxBlocks
ReadOps == {"FindUTXO", "FindTransaction", "FindSpendableOutputs", "Reindex",
            "ListBlocks", "GetBlockByIndex", "GetTransactionsForAddress"}

ReadResponse(op, arg, result) ==
    [op |-> op, status |-> "read", arg |-> <<arg>>, result |-> <<result>>]

\* A read is served in a state a request has just extended the chain to.
Read(op, arg, result) ==
    /\ last.status \in Accepted
    /\ last' = ReadResponse(op, arg, result)
    /\ UNCHANGED <<Blocks, now, procs, sig, otps>>

ReadFindUTXO(pubKeyHash) ==
    Read("FindUTXO", pubKeyHash, FindUTXO(Blocks, pubKeyHash))

ReadFindTransaction(ID) ==
    Read("FindTransaction", ID, FindTransaction(Blocks, ID))

ReadFindSpendableOutputs(pubKeyHash, amount) ==
    \E found \in FindSpendableOutputs(Blocks, pubKeyHash, amount) :
        Read("FindSpendableOutputs", <<pubKeyHash, amount>>, found)

ReadReindex == Read("Reindex", <<>>, Reindex(Blocks))

ReadListBlocks == Read("ListBlocks", <<>>, ListBlocks(Blocks))

ReadGetBlockByIndex(idx) ==
    Read("GetBlockByIndex", idx, GetBlockByIndex(Blocks, idx))

ReadGetTransactionsForAddress(address) ==
    Read("GetTransactionsForAddress", address,
         GetTransactionsForAddress(Blocks, address))

NextRead ==
    \/ \E from \in ReadFrom, to \in ConcTo, amount \in ConcAmounts, d \in Signers :
          SendTransaction(from, to, amount, PrivateKeyToHex(ScalarOf(d)))
    \/ \E address \in ConcTo, amount \in ConcAmounts : FundWallet(address, amount)
    \/ \E pubKeyHash \in ReadOwners : ReadFindUTXO(pubKeyHash)
    \/ \E ID \in ReadIDs : ReadFindTransaction(ID)
    \/ \E a \in ReadFrom, amount \in ConcAmounts :
          ReadFindSpendableOutputs(HexDecode(a), amount)
    \/ ReadReindex
    \/ ReadListBlocks
    \/ \E idx \in ReadIndexes : ReadGetBlockByIndex(idx)
    \/ \E address \in FromAddresses : ReadGetTransactionsForAddress(address)

SpecRead == Init /\ [][NextRead]_vars

\* ------------------------------------------------------------ zakat
\* base64.StdEncoding: the encoded form of a string, and its decoding.
Base64Encode(str) == [b64 |-> str]
Base64Decode(enc) == enc.b64

\* The wallet profiles of the database, in the order ListWalletProfiles
\* returns them, as Register stored them: the wallet's address and its
\* private key, hex and then base64.
WalletProfile(d) ==
    [WalletAddress |-> GetAddress(d),
     EncryptedPrivateKey |-> Base64Encode(PrivateKeyToHex(ScalarOf(d)))]
Profiles == <<WalletProfile(1), WalletProfile(2)>>

\* os.Getenv("ZAKAT_WALLET_ADDRESS"): the address of the pool wallet.
ZakatAddress == GetAddress(3)

\* zakatAmount := (balance * 25) / 1000
ZakatAmount(balance) == (balance * 25) \div 1000

\* The run before its first profile.
ZakatStart(bc, t) ==
    [bc |-> bc, t |-> t, status |-> "ok", processed |-> 0, totalZakat |-> 0,
     blockHashes |-> <<>>, records |-> <<>>]

\* One turn of RunZakat's loop, for the profile wp: the set of states the
\* run can be in after it.  Every continue leaves the run as it was; a
\* panic ends it.
ZakatTurn(run, wp) ==
    LET addr == wp.WalletAddress
        balance == balanceForAddress(run.bc, addr)
        pubKeyHash == HexDecode(addr)
        zakatAmount == ZakatAmount(balance)
        privKey == PrivateKeyFromHex(Base64Decode(wp.EncryptedPrivateKey))
        d == BigIntToPrivateKey(BigIntBytes(privKey.D))
    IN IF run.status = "panic" THEN {run}
       ELSE IF balance <= 0 THEN {run}
       ELSE IF zakatAmount <= 0 THEN {run}
       ELSE IF privKey.err # "" THEN {run}
       ELSE UNION {
              IF found[1] < zakatAmount THEN {run}
              ELSE UNION {
                     IF o.status = "panic" THEN {[run EXCEPT !.status = "panic"]}
                     ELSE IF o.status # "ok" THEN {run}
                     ELSE LET v == VerifyTransaction(run.bc, o.tx)
                          IN IF v = "panic" THEN {[run EXCEPT !.status = "panic"]}
                             ELSE IF v = "false" THEN {run}
                             ELSE { LET bc == AddBlock(run.bc, <<o.tx>>, t)
                                        hash == HexEncode(bc[Len(bc)].Hash)
                                    IN [bc |-> bc, t |-> t, status |-> "ok",
                                        processed |-> run.processed + 1,
                                        totalZakat |-> run.totalZakat + zakatAmount,
                                        blockHashes |-> Append(run.blockHashes, hash),
                                        records |-> Append(run.records,
                                            [WalletAddress |-> addr,
                                             Amount |-> zakatAmount,
                                             BlockHash |-> hash])]
                                    : t \in run.t..MaxTime }
                     : o \in NewUTXOTransaction(d, ZakatAddress, zakatAmount, run.bc,
                                                found[2], pubKeyHash, found[1]) }
              : found \in FindSpendableOutputs(run.bc, pubKeyHash, zakatAmount) }

\* for _, wp := range profiles
RECURSIVE ZakatLoop(_, _)
ZakatLoop(runs, profiles) ==
    IF profiles = <<>> THEN runs
    ELSE ZakatLoop(UNION { ZakatTurn(run, Head(profiles)) : run \in runs },
                   Tail(profiles))

\* zakatRunResponse, with the zakat records the run saved; a run that
\* panicked sends no response.
ZakatResponse(run) ==
    [op |-> "zakat", status |-> run.status,
     total_wallets |-> Len(Profiles), processed |-> run.processed,
     total_zakat |-> run.totalZakat, block_hashes |-> run.blockHashes,
     records |-> run.records]

\* Server.RunZakat
RunZakat ==
    /\ Serving
    /\ \E run \in ZakatLoop({ZakatStart(Blocks, now)}, Profiles) :
          /\ Blocks' = run.bc
          /\ now' = run.t
          /\ last' = ZakatResponse(run)
    /\ UNCHANGED <<procs, sig, otps>>

\* The zakat runs of a server whose wallets are funded and send.
ZakatFunded == { GetAddress(1), GetAddress(2) }
NextZakat ==
    \/ \E address \in ZakatFunded, amount \in ConcAmounts :
          FundWallet(address, amount)
    \/ \E from \in ZakatFunded, to \in ZakatFunded, amount \in ConcAmounts,
          d \in Signers :
          SendTransaction(from, to, amount, PrivateKeyToHex(ScalarOf(d)))
    \/ RunZakat
SpecZakat == Init /\ [][NextZakat]_vars

\* ------------------------------------------------------------ ledger facts
\* What the chain itself says, independently of the UTXO scan: which
\* outputs exist, which inputs reference them, and who owns what.

RECURSIVE SumValues(_)
SumValues(outs) ==
    IF outs = <<>> THEN 0 ELSE Head(outs).Value + SumValues(Tail(outs))

\* The sum of the function f over the set S.
RECURSIVE SumSet(_, _)
SumSet(S, f) ==
    IF S = {} THEN 0
    ELSE LET x == CHOOSE y \in S : TRUE IN f[x] + SumSet(S \ {x}, f)

\* The subsequence of s at the (1-based) positions in keep.
RECURSIVE Filter(_, _, _)
Filter(s, keep, i) ==
    IF i > Len(s) THEN <<>>
    ELSE (IF i \in keep THEN <<s[i]>> ELSE <<>>) \o Filter(s, keep, i + 1)

\* The inputs of the chain's non-coinbase transactions, as <<position of
\* the transaction in the chain, position of the input>>.
ChainInputs(bc) ==
    LET txs == ChainTxs(bc)
    IN { <<p, i>> \in (1..Len(txs)) \X (1..2 * MaxBlocks) :
            ~IsCoinbase(txs[p]) /\ i <= Len(txs[p].Vin) }

\* The output an input references: <<transaction id, output index>>.
RefOf(bc, pi) ==
    LET vin == ChainTxs(bc)[pi[1]].Vin[pi[2]]
    IN <<HexEncode(vin.Txid), vin.Vout>>

\* Output outIdx of the transaction at position p is referenced by an
\* input of a transaction placed later in the chain.
SpentLater(bc, p, outIdx) ==
    \E pi \in ChainInputs(bc) :
        pi[1] > p /\ RefOf(bc, pi) = <<HexEncode(ChainTxs(bc)[p].ID), outIdx>>

\* The outputs of the transaction at position p that are unspent and, with
\* an owner filter, owned by it.
UnspentOf(bc, p, pubKeyHash) ==
    LET outs == ChainTxs(bc)[p].Vout
        keep == { j \in 1..Len(outs) :
                    /\ ~SpentLater(bc, p, j - 1)
                    /\ (pubKeyHash = Nil \/ outs[j].PubKeyHash = pubKeyHash) }
    IN Filter(outs, keep, 1)

\* The unspent outputs listed per transaction id.
RECURSIVE UnspentUnder(_, _, _, _)
UnspentUnder(bc, txID, pubKeyHash, p) ==
    IF p > Len(ChainTxs(bc)) THEN <<>>
    ELSE (IF HexEncode(ChainTxs(bc)[p].ID) = txID
          THEN UnspentOf(bc, p, pubKeyHash) ELSE <<>>)
         \o UnspentUnder(bc, txID, pubKeyHash, p + 1)

UnspentMap(bc, pubKeyHash) ==
    LET txs == ChainTxs(bc)
        ids == { HexEncode(txs[p].ID) : p \in 1..Len(txs) }
        live == { id \in ids : UnspentUnder(bc, id, pubKeyHash, 1) # <<>> }
    IN [id \in live |-> UnspentUnder(bc, id, pubKeyHash, 1)]

\* The total value of the unspent outputs owned by an address.
UnspentValue(bc, address) ==
    LET m == UnspentMap(bc, HexDecode(address))
    IN SumSet(DOMAIN m, [id \in DOMAIN m |-> SumValues(m[id])])

\* The chain before the last block was appended.
Before(bc) == SubSeq(bc, 1, Len(bc) - 1)

Mined == last.op = "send" /\ last.status = "transaction mined"

\* ------------------------------------------------------------ claims
\* C1: over all transactions of the chain, every output (transaction id,
\* output index) is referenced by at most one input.
C1_NoOutputSpentTwice ==
    \A a \in ChainInputs(Blocks), b \in ChainInputs(Blocks) :
        a # b => RefOf(Blocks, a) # RefOf(Blocks, b)

\* C2: FindUTXO(nil) lists under each transaction id exactly the outputs no
\* later input references, with no entry when all are spent, and FindUTXO(h)
\* is the same restricted to the outputs owned by h.
C2_FindUTXOIsUnspent ==
    /\ FindUTXO(Blocks, Nil) = UnspentMap(Blocks, Nil)
    /\ \A a \in Addresses :
          FindUTXO(Blocks, HexDecode(a)) = UnspentMap(Blocks, HexDecode(a))

\* C3: a successful send of amount from A to a different B raises the
\* balance of B by amount and lowers the balance of A by amount.
C3_SendMovesAmount ==
    (Mined /\ last.from # last.to) =>
        /\ balanceForAddress(Blocks, last.to)
             = balanceForAddress(Before(Blocks), last.to) + last.amount
        /\ balanceForAddress(Blocks, last.from)
             = balanceForAddress(Before(Blocks), last.from) - last.amount

\* C4: every block after the first has the hash of its predecessor as
\* PrevHash, and the first block is the genesis block with empty PrevHash.
C4_ChainLinked ==
    /\ Blocks[1].PrevHash = <<>>
    /\ Blocks[1].Transactions = <<NewCoinbaseTx(GenesisAddress, "Genesis Block")>>
    /\ \A i \in 2..Len(Blocks) : Blocks[i].PrevHash = Blocks[i - 1].Hash

\* C4 witness: a chain with at least two appended blocks.
C4_Witness == Len(Blocks) >= 3

C7_SpentNeverSelected ==
    \A pi \in ChainInputs(Blocks) :
        LET ref == RefOf(Blocks, pi)
            prev == FindTransaction(Blocks, HexDecode(ref[1]))
        IN (prev.found /\ ref[2] < Len(prev.tx.Vout)) =>
              \A amount \in Amounts :
                 \A found \in FindSpendableOutputs(
                                 Blocks, prev.tx.Vout[ref[2] + 1].PubKeyHash, amount) :
                    ~\E j \in 1..Len(MapGet(found[2], ref[1])) :
                         found[2][ref[1]][j] = ref[2]

\* C8: in every non-coinbase transaction of the chain the output values
\* sum to at most the values of the outputs its inputs reference.
RefValue(bc, pi) ==
    LET ref == RefOf(bc, pi)
    IN FindTransaction(bc, HexDecode(ref[1])).tx.Vout[ref[2] + 1].Value
C8_OutputsWithinInputs ==
    \A p \in { pi[1] : pi \in ChainInputs(Blocks) } :
        LET ins == { pi \in ChainInputs(Blocks) : pi[1] = p }
        IN SumValues(ChainTxs(Blocks)[p].Vout)
              <= SumSet(ins, [pi \in ins |-> RefValue(Blocks, pi)])

\* The inputs of the transaction a request in flight has built.
InFlight(p) == procs[p].pc \in {"built", "tip", "mined", "loaded"}
BuiltRefs(p) ==
    LET tx == procs[p].txs[1]
    IN IF IsCoinbase(tx) THEN {}
       ELSE { <<HexEncode(tx.Vin[i].Txid), tx.Vin[i].Vout>> : i \in 1..Len(tx.Vin) }

\* C5: requests served concurrently behave as if each ran alone: no two
\* blocks have the same PrevHash, the block of every answered request is in
\* the chain, and no two transactions in flight spend the same output.
C5_RequestsAtomic ==
    /\ \A i \in 1..Len(Blocks), j \in 1..Len(Blocks) :
          i # j => Blocks[i].PrevHash # Blocks[j].PrevHash
    /\ \A p \in Procs :
          (procs[p].pc = "done" /\ procs[p].status \in Accepted) =>
              \E i \in 1..Len(Blocks) : Blocks[i] = procs[p].block[1]
    /\ \A p \in Procs, q \in Procs :
          (p # q /\ InFlight(p) /\ InFlight(q)) => BuiltRefs(p) \cap BuiltRefs(q) = {}

\* C9: a transaction whose inputs reference outputs owned by the address
\* of key d and which was signed with d verifies against the same
\* referenced transactions.
C9_SignedVerifies == sig.pc = "signed" => sig.verified = "true"

\* C10: after signing, a change of an output's value, of an output's
\* owner or of an input's signature makes Verify return false.
C10_ChangeDetected == sig.pc = "changed" => sig.verified = "false"

\* The UTXO map a caller holds after Reindex on the genesis chain and one
\* Update per appended block, in chain order, up to block k.
RECURSIVE Replayed(_, _)
Replayed(bc, k) ==
    IF k = 1 THEN Reindex(SubSeq(bc, 1, 1))
    ELSE Update(bc[k], Replayed(bc, k - 1))

\* C11: after every such update the replayed map equals the map recomputed
\* from the chain by Reindex, and lists per transaction id exactly the
\* outputs not yet spent.
C11_UpdateTracksChain ==
    \A k \in 1..Len(Blocks) :
        /\ Replayed(Blocks, k) = Reindex(SubSeq(Blocks, 1, k))
        /\ Replayed(Blocks, k) = UnspentMap(SubSeq(Blocks, 1, k), Nil)

\* A request carrying a malformed address, a non-positive amount or an
\* undecodable private key.
BadRequest(r) ==
    \/ HexDecodeErr(r.from) \/ HexDecodeErr(r.to)
    \/ r.amount <= 0
    \/ (r.op = "send" /\ DecodeString(r.privKey).err)

\* C12: such a send or fund request is answered with an error and leaves
\* the chain unchanged.
C12_BadRequestRejected ==
    [][(last'.op \in {"send", "fund"} /\ BadRequest(last'))
         => (last'.status \notin Accepted /\ Blocks' = Blocks)]_vars

\* C13: every block NewBlock returned validates: the hash of its header
\* with the stored nonce is below the target and is the stored hash, and
\* no smaller nonce has a hash below the target.
C13_MinedBlockValidates ==
    \A i \in 1..Len(Blocks) :
        LET b == Blocks[i]
        IN /\ Validate(b)
           /\ b.Hash = sha256(prepareData(b, b.Nonce))
           /\ HashInt(b.Hash) < target
           /\ \A n \in 0..(b.Nonce - 1) :
                 HashInt(sha256(prepareData(b, n))) >= target

\* C13 witness: an appended block for which Run had to try several nonces.
C13_Witness ==
    \E i \in 2..Len(Blocks) : Blocks[i].Nonce > 0

\* A byte string that cannot be split into two equal halves.
Unsplittable(bs) == Len(bs) = 0 \/ Len(bs) % 2 = 1

\* C14: when some input's signature or public key is empty or of odd
\* length, Verify returns false (and does not panic).
C14_UnsplittableIsFalse ==
    (/\ sig.pc \in {"signed", "changed"}
     /\ \E i \in 1..Len(sig.tx.Vin) :
           \/ Unsplittable(sig.tx.Vin[i].Signature)
           \/ Unsplittable(sig.tx.Vin[i].PubKey))
    => sig.verified = "false"

\* The inputs of tx whose referenced transaction id is not in ids.
MissingRefs(tx, ids) ==
    { i \in 1..Len(tx.Vin) : HexEncode(tx.Vin[i].Txid) \notin ids }
Unsigned(vin) == vin.Signature = <<>> /\ vin.PubKey = <<>>
ChainIDs == { HexEncode(ChainTxs(Blocks)[p].ID) : p \in 1..Len(ChainTxs(Blocks)) }

C16_FundMintsReward ==
    [][(/\ last'.op = "fund"
        /\ last'.amount > 0
        /\ ValidateAddress(last'.to) /\ ~HexDecodeErr(last'.to))
       => (/\ last'.status = "ok"
           /\ Len(Blocks') = Len(Blocks) + 1
           /\ Before(Blocks') = Blocks
           /\ LET txs == Blocks'[Len(Blocks')].Transactions
              IN /\ Len(txs) = 1
                 /\ Len(txs[1].Vin) = 1
                 /\ txs[1].Vin[1].Txid = <<>>
                 /\ txs[1].Vin[1].Vout = -1
                 /\ txs[1].Vout = <<[Value |-> 15000,
                                     PubKeyHash |-> HexDecode(last'.to)]>>
           /\ balanceForAddress(Blocks', last'.to)
                = balanceForAddress(Blocks, last'.to) + 15000)]_vars

\* The requests VerifyOTP answered with success for this email and code.
Verified(email, code) ==
    { p \in OtpProcs : /\ procs[p].op = "verify"
                       /\ procs[p].status = "otp verified"
                       /\ procs[p].email = email
                       /\ procs[p].otp = code }

\* C17: each password issued for an email is verified successfully at
\* most once, also by verifications running concurrently.
C17_OTPUsedOnce ==
    \A email \in Emails, code \in Codes : Cardinality(Verified(email, code)) <= 1

\* The positions in the chain of the transactions with an output owned by
\* the address.
PayingPositions(bc, address) ==
    { p \in 1..Len(ChainTxs(bc)) :
        \E j \in 1..Len(ChainTxs(bc)[p].Vout) :
            ChainTxs(bc)[p].Vout[j].PubKeyHash = HexDecode(address) }

\* C18: GetTransactionsForAddress returns the transactions with at least
\* one output owned by the address, each once, in chain order, and no
\* others; after a send to an address nothing had paid before, it returns
\* exactly one transaction for that address.
C18_TransactionsForAddress ==
    /\ \A a \in Addresses :
          LET got == GetTransactionsForAddress(Blocks, a)
          IN /\ got.err = ""
             /\ got.txs = Filter(ChainTxs(Blocks), PayingPositions(Blocks, a), 1)
    /\ (Mined /\ PayingPositions(Before(Blocks), last.to) = {}) =>
          Len(GetTransactionsForAddress(Blocks, last.to).txs) = 1

\* C18 witness: a send that left its sender without an output in the new
\* transaction, to an address nothing had paid before.
C18_Witness ==
    /\ Mined
    /\ PayingPositions(Before(Blocks), last.to) = {}
    /\ Len(ChainTxs(Blocks)) \notin PayingPositions(Blocks, last.from)
    /\ PayingPositions(Blocks, last.from) # {}

\* The ids looked up: those of the chain's transactions, those its inputs
\* reference (the empty reference of a coinbase input among them), and one
\* that is the id of no transaction.
LookedUpIDs ==
    LET txs == ChainTxs(Blocks)
    IN { txs[p].ID : p \in 1..Len(txs) }
       \cup { txs[p].Vin[1].Txid : p \in 1..Len(txs) }
       \cup { sha256(<<>>) }

\* The positions in the chain of the transactions with this id.
PositionsOf(bc, ID) == { p \in 1..Len(ChainTxs(bc)) : ChainTxs(bc)[p].ID = ID }

\* C19: FindTransaction(id) returns the transaction at the first position
\* in chain order whose ID is id, and the not-found error exactly when no
\* transaction of the chain has that id.
C19_FindTransactionFirst ==
    \A ID \in LookedUpIDs :
        LET f == FindTransaction(Blocks, ID)
            at == PositionsOf(Blocks, ID)
        IN /\ f.found <=> at # {}
           /\ f.found =>
                 f.tx = ChainTxs(Blocks)[CHOOSE p \in at : \A q \in at : p <= q]
           /\ ~f.found => f.tx = NoTx

\* C19 witness: a chain in which two transactions have the same id, and an
\* id is looked up that no transaction has.
C19_Witness ==
    /\ \E ID \in LookedUpIDs : Cardinality(PositionsOf(Blocks, ID)) >= 2
    /\ \E ID \in LookedUpIDs : PositionsOf(Blocks, ID) = {}

\* C20: decoding the hex string of a private key succeeds and gives back
\* the same scalar D and the same public key, also for a scalar whose
\* fixed-width encoding starts with zero bytes.
C20_PrivateKeyRoundTrip ==
    sig.pc = "decoded" =>
        /\ sig.got[1].err = ""
        /\ sig.got[1].D = sig.D
        /\ sig.got[1].PublicKey = sig.PublicKey

\* C20 witness: a decoded key whose scalar is shorter than the full width
\* and whose hex string has a leading zero digit.
C20_Witness ==
    /\ sig.pc = "decoded"
    /\ sig.D < 256
    /\ sig.hex[1] = 0
    /\ sig.got[1].D = sig.D

\* s is a prefix of t.
IsPrefix(s, t) == Len(s) <= Len(t) /\ SubSeq(t, 1, Len(s)) = s

\* C21: across every operation the chain before is a prefix of the chain
\* after; a request that calls AddBlock extends it by exactly one block,
\* and FindUTXO, FindTransaction, FindSpendableOutputs, Reindex, ListBlocks,
\* GetBlockByIndex and GetTransactionsForAddress leave it unchanged.
C21_AppendOnly ==
    [][/\ IsPrefix(Blocks, Blocks')
       /\ (last'.op \in {"send", "fund"} /\ last'.status \in Accepted)
             => Len(Blocks') = Len(Blocks) + 1
       /\ last'.op \in ReadOps => Blocks' = Blocks]_vars

\* C21 witness: a read served on a chain two requests have extended.
C21_Witness ==
    /\ last.op = "GetBlockByIndex"
    /\ last.arg[1] = 2
    /\ last.result[1].ok
    /\ last.result[1].block[1] = Blocks[3]

\* The owner identifier a public key hashes to (Wallet.GetAddress, decoded).
OwnerOf(pubKey) == sha256(pubKey)

\* C22: when Verify returns true for a non-coinbase transaction, the hash
\* of every input's stored public key is the owner of the output the input
\* references; here for the transaction a send has just had verified and
\* mined, against the chain it was verified on.
C22_OnlyOwnerSpends ==
    Mined =>
        LET bc == Before(Blocks)
            tx == Blocks[Len(Blocks)].Transactions[1]
        IN VerifyTransaction(bc, tx) = "true" =>
              \A i \in 1..Len(tx.Vin) :
                 LET prev == FindTransaction(bc, tx.Vin[i].Txid).tx
                 IN OwnerOf(tx.Vin[i].PubKey)
                       = prev.Vout[tx.Vin[i].Vout + 1].PubKeyHash

\* The pairs <<transaction id, output index>> of a selection.
PairsOf(sel) ==
    UNION { { <<txID, sel[txID][j]>> : j \in 1..Len(sel[txID]) } : txID \in DOMAIN sel }

\* The output a pair designates: the one at that index of the output list
\* of the transaction with that id.
Designates(bc, pair) ==
    LET f == FindTransaction(bc, HexDecode(pair[1]))
    IN f.found /\ pair[2] >= 0 /\ pair[2] < Len(f.tx.Vout)
DesignatedOut(bc, pair) ==
    FindTransaction(bc, HexDecode(pair[1])).tx.Vout[pair[2] + 1]

\* C23: every pair FindSpendableOutputs returns designates an output of
\* that transaction which is owned by the owner asked for and which no
\* input in the chain references, and the accumulated value is the sum of
\* the values of the designated outputs.
C23_SelectionDesignatesOwned ==
    \A a \in Addresses, amount \in Amounts :
       \A found \in FindSpendableOutputs(Blocks, HexDecode(a), amount) :
          LET pairs == PairsOf(found[2])
          IN /\ \A pair \in pairs :
                   /\ Designates(Blocks, pair)
                   /\ DesignatedOut(Blocks, pair).PubKeyHash = HexDecode(a)
                   /\ ~\E pi \in ChainInputs(Blocks) : RefOf(Blocks, pi) = pair
             /\ found[1] = SumSet(pairs, [pair \in pairs |->
                                            DesignatedOut(Blocks, pair).Value])

\* The unspent outputs owned by an address, as pairs <<transaction id,
\* output index>>.
UnspentPairs(bc, address) ==
    { <<HexEncode(ChainTxs(bc)[p].ID), j - 1>> :
        <<p, j>> \in { x \in (1..Len(ChainTxs(bc))) \X (1..2) :
                         /\ x[2] <= Len(ChainTxs(bc)[x[1]].Vout)
                         /\ ChainTxs(bc)[x[1]].Vout[x[2]].PubKeyHash = HexDecode(address)
                         /\ ~SpentLater(bc, x[1], x[2] - 1) } }

\* C24: FindSpendableOutputs stops as soon as the accumulated value
\* reaches the amount, so that without the output selected last it is
\* below the amount; and when it returns less than the amount, every
\* unspent output of the owner is selected and the value returned is the
\* owner's balance.
C24_FirstFitEarlyStop ==
    \A a \in Addresses, amount \in Amounts :
       \A found \in FindSpendableOutputs(Blocks, HexDecode(a), amount) :
          LET pairs == PairsOf(found[2])
          IN /\ (found[1] >= amount) =>
                   \E pair \in pairs :
                      /\ Designates(Blocks, pair)
                      /\ found[1] - DesignatedOut(Blocks, pair).Value < amount
             /\ (found[1] < amount) =>
                   /\ UnspentPairs(Blocks, a) \subseteq pairs
                   /\ found[1] = balanceForAddress(Blocks, a)

\* C25: two calls of FindSpendableOutputs with the same owner and amount
\* on the same chain return the same accumulated value and the same
\* selection.
C25_StableSelection ==
    \A a \in Addresses, amount \in Amounts :
       \A first \in FindSpendableOutputs(Blocks, HexDecode(a), amount),
          second \in FindSpendableOutputs(Blocks, HexDecode(a), amount) :
          /\ first[1] = second[1]
          /\ PairsOf(first[2]) = PairsOf(second[2])

\* C26: no two transactions of the chain have the same ID.  Stated for the
\* coinbase transactions, whose ID is a function of the recipient and the
\* data string alone; the ID of a transfer also covers its signatures.
C26_UniqueIDs ==
    \A p \in 1..Len(ChainTxs(Blocks)), q \in 1..Len(ChainTxs(Blocks)) :
        (p # q /\ IsCoinbase(ChainTxs(Blocks)[p]) /\ IsCoinbase(ChainTxs(Blocks)[q]))
            => ChainTxs(Blocks)[p].ID # ChainTxs(Blocks)[q].ID

\* The coinbase transactions of the chain, by position.
CoinbasePositions(bc) ==
    { p \in 1..Len(ChainTxs(bc)) : IsCoinbase(ChainTxs(bc)[p]) }

\* Every output of the chain is owned by one of the addresses.
AllOwnersKnown(bc) ==
    \A p \in 1..Len(ChainTxs(bc)) :
       \A j \in 1..Len(ChainTxs(bc)[p].Vout) :
          \E a \in Addresses : ChainTxs(bc)[p].Vout[j].PubKeyHash = HexDecode(a)

\* C27: the balances of all addresses sum to 15000 times the number of
\* coinbase transactions in the chain, the genesis one included.
C27_ValueConserved ==
    AllOwnersKnown(Blocks) =>
        SumSet(Addresses, [a \in Addresses |-> balanceForAddress(Blocks, a)])
            = 15000 * Cardinality(CoinbasePositions(Blocks))

\* The error responses of SendTransaction.
SendErrors == {"invalid address", "amount must be positive", "invalid private key",
               "insufficient funds", "failed to create transaction",
               "invalid transaction"}

\* A chain in which no transfer has the ID of another transaction: the ID
\* of a transfer covers its signatures, which ecdsa.Sign draws at random.
TransferIDsDiffer(bc) ==
    \A p \in 1..Len(ChainTxs(bc)), q \in 1..Len(ChainTxs(bc)) :
        (p # q /\ ~IsCoinbase(ChainTxs(bc)[p]))
            => ChainTxs(bc)[p].ID # ChainTxs(bc)[q].ID

\* C28: a send request with well-formed addresses and key either succeeds
\* and appends exactly one block holding exactly the new transaction, or
\* is answered with an error and leaves the chain unchanged; it never
\* panics.  Stated for the chains whose transfers have ids of their own.
C28_SendSucceedsOrFails ==
    [][(last'.op = "send" /\ ~BadRequest(last') /\ TransferIDsDiffer(Blocks)) =>
          \/ /\ last'.status = "transaction mined"
             /\ Len(Blocks') = Len(Blocks) + 1
             /\ Before(Blocks') = Blocks
             /\ Len(Blocks'[Len(Blocks')].Transactions) = 1
          \/ /\ last'.status \in SendErrors
             /\ Blocks' = Blocks]_vars

\* C29: splitting the concatenated encodings of a pair at the midpoint
\* gives the pair back, also when the two encodings differ in length.
C29_PairRoundTrip ==
    sig.pc = "split" => sig.got = <<sig.a, sig.b>>

\* The amount the blocks of bc after the first n pay to the pool address.
RECURSIVE PaidToPool(_, _)
PaidToPool(bc, n) ==
    IF Len(bc) <= n THEN 0
    ELSE SumOwned(bc[Len(bc)].Transactions[1].Vout, HexDecode(ZakatAddress))
         + PaidToPool(Before(bc), n)

\* The counters of a zakat response against the chain before and after.
ZakatCounted(before, after, resp) ==
    /\ IsPrefix(before, after)
    /\ resp.processed = Len(after) - Len(before)
    /\ resp.processed = Len(resp.block_hashes)
    /\ \A k \in 1..Len(resp.block_hashes) :
          resp.block_hashes[k] = HexEncode(after[Len(before) + k].Hash)
    /\ resp.total_zakat = PaidToPool(after, Len(before))

\* The block after the first m of bc is the charge of the wallet at addr:
\* one transfer of amount to the pool, recorded for the wallet.
IsCharge(bc, m, n, resp, addr, amount) ==
    /\ m < Len(bc)
    /\ Len(bc[m + 1].Transactions) = 1
    /\ bc[m + 1].Transactions[1].Vout[1] =
          [Value |-> amount, PubKeyHash |-> HexDecode(ZakatAddress)]
    /\ resp.records[m - n + 1] =
          [WalletAddress |-> addr, Amount |-> amount,
           BlockHash |-> HexEncode(bc[m + 1].Hash)]

\* The profiles from the j-th on, walked over the chain bc whose first m
\* blocks stood when the j-th was reached (n when the run began): a wallet
\* with a positive balance and amount is charged its amount, and any other
\* wallet is passed over.
RECURSIVE EachCharged(_, _, _, _, _)
EachCharged(bc, m, n, resp, j) ==
    IF j > Len(Profiles) THEN m = Len(bc)
    ELSE LET addr == Profiles[j].WalletAddress
             balance == balanceForAddress(SubSeq(bc, 1, m), addr)
             amount == ZakatAmount(balance)
         IN IF balance > 0 /\ amount > 0
            THEN /\ IsCharge(bc, m, n, resp, addr, amount)
                 /\ EachCharged(bc, m + 1, n, resp, j + 1)
            ELSE EachCharged(bc, m, n, resp, j + 1)

\* C30: when a zakat run completes, every wallet profile whose balance and
\* floor(balance * 25 / 1000), taken when its turn comes, are positive has
\* been charged that amount in a block of its own, and every other profile
\* has been passed over; processed is the number of blocks the run appended
\* and the length of block_hashes, and total_zakat is the sum of the
\* amounts the run transferred to the pool address.
C30_ZakatCharged ==
    [][(last'.op = "zakat" /\ last'.status = "ok") =>
          /\ ZakatCounted(Blocks, Blocks', last')
          /\ EachCharged(Blocks', Len(Blocks), Len(Blocks), last', 1)]_vars

====
